---------------------------- MODULE Spec2Model ----------------------------
(***************************************************************************)
(* dbt-correlator: the three CLI workflows (test, run, build), the dbt     *)
(* artifact parsers, the dataset resolver, the result grouper, the event   *)
(* builder and the batch emitter.                                          *)
(*                                                                         *)
(* Representation.  A Python str is a sequence of tokens; the characters   *)
(* the code splits or joins on (".", ":") are always tokens of their own,  *)
(* every other token stands for a run of characters containing neither.    *)
(* A JSON object / Python dict is a function whose DOMAIN is the set of    *)
(* keys present.  None is the one-token sequence NoneVal.  A call that may *)
(* raise returns Ok(value) or Raise(exception class, message).             *)
(***************************************************************************)
EXTENDS Integers, Sequences, FiniteSets, TLC

---------------------------------------------------------------------------
(* Python values *)

NoneVal == <<"None">>

Ok(v) == [ok |-> TRUE, val |-> v]

Raise(exc, msg) == [ok |-> FALSE, exc |-> exc, msg |-> msg]

\* dict.get(key, default)
Get(d, k, default) == IF k \in DOMAIN d THEN d[k] ELSE default

\* truth value of an optional str: None and "" are falsy
Truthy(s) == s # NoneVal /\ s # <<>>

\* str.split(sep)
RECURSIVE split(_, _)
split(s, sep) ==
    IF \A i \in 1..Len(s) : s[i] # sep
    THEN <<s>>
    ELSE LET i == CHOOSE k \in 1..Len(s) :
                      s[k] = sep /\ \A j \in 1..(k - 1) : s[j] # sep
         IN  <<SubSeq(s, 1, i - 1)>> \o split(SubSeq(s, i + 1, Len(s)), sep)

\* str.split(sep, 1)
split1(s, sep) ==
    IF \A i \in 1..Len(s) : s[i] # sep
    THEN <<s>>
    ELSE LET i == CHOOSE k \in 1..Len(s) :
                      s[k] = sep /\ \A j \in 1..(k - 1) : s[j] # sep
         IN  <<SubSeq(s, 1, i - 1), SubSeq(s, i + 1, Len(s))>>

\* str.lower(), on the status tokens the model uses
lowerToken(t) ==
    CASE t = "PASS" -> "pass"
      [] t = "Pass" -> "pass"
      [] t = "pAsS" -> "pass"
      [] t = "FAIL" -> "fail"
      [] OTHER -> t

lower(s) == [i \in 1..Len(s) |-> lowerToken(s[i])]

---------------------------------------------------------------------------
(* parser.py *)

\* A file on disk: absent, not JSON, or a JSON object.
Missing == [kind |-> "missing"]

BadJson == [kind |-> "bad_json"]

Json(data) == [kind |-> "json", data |-> data]

get_data_from_file(file) ==
    CASE file.kind = "missing" -> Raise("FileNotFoundError", "not found at path")
      [] file.kind = "bad_json" -> Raise("ValueError", "invalid JSON")
      [] OTHER -> Ok(file.data)

\* datetime.fromisoformat(s.replace("Z", "+00:00")); the valid timestamps of
\* the model are <<date, "Z">> and <<date, "+00:00">>.
ValidDates == {"2024-01-01T12:00:00"}

replaceZ(s) == [i \in 1..Len(s) |-> IF s[i] = "Z" THEN "+00:00" ELSE s[i]]

fromisoformat(s) ==
    IF Len(s) = 2 /\ s[1] \in ValidDates /\ s[2] = "+00:00"
    THEN Ok(s)
    ELSE Raise("ValueError", "Invalid isoformat string")

TestResult(result_dict) ==
    [unique_id        |-> Get(result_dict, "unique_id", <<>>),
     status           |-> Get(result_dict, "status", <<>>),
     execution_time   |-> Get(result_dict, "execution_time", 0),
     failures         |-> Get(result_dict, "failures", NoneVal),
     message          |-> Get(result_dict, "message", NoneVal)]

\* Inside the results array of a run-results document, a JSON value that is
\* not an object (null, a string, a number) is NotAnObject(kind).
NotAnObject(kind) == [json |-> kind]

IsObject(value) == "json" \notin DOMAIN value

\* the loop `for result_dict in results_data`: result_dict.get(...) raises
\* AttributeError on a value that is not a dict
parseResults(results_data) ==
    IF \E i \in 1..Len(results_data) : ~IsObject(results_data[i])
    THEN Raise("AttributeError", "object has no attribute 'get'")
    ELSE Ok([i \in 1..Len(results_data) |-> TestResult(results_data[i])])

\* RunResults(metadata=metadata, results=results), or the exception of the loop
RunResults(metadata, results) ==
    IF ~results.ok THEN results
    ELSE Ok([metadata |-> metadata, results |-> results.val])

parse_run_results(file) ==
    LET read == get_data_from_file(file) IN
    IF ~read.ok THEN read
    ELSE LET data == read.val IN
    IF "metadata" \notin DOMAIN data
    THEN Raise("KeyError", "Missing required field 'metadata' in run_results.json")
    ELSE LET metadata_dict == data["metadata"] IN
    IF "generated_at" \notin DOMAIN metadata_dict
    THEN Raise("KeyError", "Missing required metadata field in run_results.json")
    ELSE LET generated_at == fromisoformat(replaceZ(metadata_dict["generated_at"])) IN
    IF ~generated_at.ok THEN generated_at
    ELSE IF "invocation_id" \notin DOMAIN metadata_dict
              \/ "dbt_version" \notin DOMAIN metadata_dict
    THEN Raise("KeyError", "Missing required metadata field in run_results.json")
    ELSE RunResults([generated_at  |-> generated_at.val,
                     invocation_id |-> metadata_dict["invocation_id"],
                     dbt_version   |-> metadata_dict["dbt_version"],
                     elapsed_time  |-> Get(data, "elapsed_time",
                                           Get(metadata_dict, "elapsed_time", 0))],
                    parseResults(Get(data, "results", <<>>)))

\* mutant: absent top-level fields default to empty instead of failing
parse_manifest_lenient(file) ==
    LET read == get_data_from_file(file) IN
    IF ~read.ok THEN read
    ELSE Ok([nodes    |-> Get(read.val, "nodes", <<>>),
             sources  |-> Get(read.val, "sources", <<>>),
             metadata |-> Get(read.val, "metadata", <<>>)])

parse_manifest(file) ==
    LET read == get_data_from_file(file) IN
    IF ~read.ok THEN read
    ELSE LET data == read.val IN
    IF \E k \in {"nodes", "sources", "metadata"} : k \notin DOMAIN data
    THEN Raise("KeyError", "Missing required field in manifest.json")
    ELSE Ok([nodes    |-> data["nodes"],
             sources  |-> data["sources"],
             metadata |-> data["metadata"]])

\* mutant: the IndexError of parts[1] is not wrapped in a ValueError
_extract_project_name_unwrapped(test_unique_id) ==
    LET parts == split(test_unique_id, ".") IN
    IF Len(parts) < 2
    THEN Raise("IndexError", "list index out of range")
    ELSE Ok(parts[2])

_extract_project_name(test_unique_id) ==
    LET parts == split(test_unique_id, ".") IN
    IF Len(parts) < 2
    THEN Raise("ValueError", "Invalid test unique_id format")
    ELSE Ok(parts[2])

\* mutant: the last reference is taken instead of the first
_extract_model_name_last_ref(test_node) ==
    LET refs == Get(test_node, "refs", <<>>) IN
    IF refs = <<>>
    THEN Raise("ValueError", "Test node has no refs")
    ELSE LET model_name == Get(refs[Len(refs)], "name", NoneVal) IN
         IF ~Truthy(model_name)
         THEN Raise("ValueError", "Test node ref has no name")
         ELSE Ok(model_name)

_extract_model_name(test_node) ==
    LET refs == Get(test_node, "refs", <<>>) IN
    IF refs = <<>>
    THEN Raise("ValueError", "Test node has no refs")
    ELSE LET model_name == Get(refs[1], "name", NoneVal) IN
         IF ~Truthy(model_name)
         THEN Raise("ValueError", "Test node ref has no name")
         ELSE Ok(model_name)

\* mutant: the logical name takes precedence over the alias
_extract_dataset_location_name_first(model_node) ==
    IF "database" \notin DOMAIN model_node \/ "schema" \notin DOMAIN model_node
    THEN Raise("KeyError", "Model node missing required fields")
    ELSE IF "name" \in DOMAIN model_node
    THEN Ok([database |-> model_node["database"],
             schema   |-> model_node["schema"],
             table    |-> model_node["name"]])
    ELSE IF Truthy(Get(model_node, "alias", NoneVal))
    THEN Ok([database |-> model_node["database"],
             schema   |-> model_node["schema"],
             table    |-> model_node["alias"]])
    ELSE Raise("KeyError", "Model node missing required fields")

\* mutant: an absent schema is read with a default instead of failing
_extract_dataset_location_default_schema(model_node) ==
    IF "database" \notin DOMAIN model_node
    THEN Raise("KeyError", "Model node missing required fields")
    ELSE LET alias == Get(model_node, "alias", NoneVal) IN
         IF Truthy(alias)
         THEN Ok([database |-> model_node["database"],
                  schema   |-> Get(model_node, "schema", <<"public">>),
                  table    |-> alias])
         ELSE IF "name" \notin DOMAIN model_node
         THEN Raise("KeyError", "Model node missing required fields")
         ELSE Ok([database |-> model_node["database"],
                  schema   |-> Get(model_node, "schema", <<"public">>),
                  table    |-> model_node["name"]])

_extract_dataset_location(model_node) ==
    IF "database" \notin DOMAIN model_node \/ "schema" \notin DOMAIN model_node
    THEN Raise("KeyError", "Model node missing required fields")
    ELSE LET alias == Get(model_node, "alias", NoneVal) IN
         IF Truthy(alias)
         THEN Ok([database |-> model_node["database"],
                  schema   |-> model_node["schema"],
                  table    |-> alias])
         ELSE IF "name" \notin DOMAIN model_node
         THEN Raise("KeyError", "Model node missing required fields")
         ELSE Ok([database |-> model_node["database"],
                  schema   |-> model_node["schema"],
                  table    |-> model_node["name"]])

\* mutant: both lookups in manifest.nodes fail with the same message
extract_dataset_info_one_message(test_unique_id, manifest) ==
    IF test_unique_id \notin DOMAIN manifest.nodes
    THEN Raise("KeyError", "Node not found in manifest")
    ELSE LET test_node    == manifest.nodes[test_unique_id]
             project_name == _extract_project_name(test_unique_id) IN
    IF ~project_name.ok THEN project_name
    ELSE LET model_name == _extract_model_name(test_node) IN
    IF ~model_name.ok THEN model_name
    ELSE LET model_unique_id ==
                 <<"model", ".">> \o project_name.val \o <<".">> \o model_name.val IN
    IF model_unique_id \notin DOMAIN manifest.nodes
    THEN Raise("KeyError", "Node not found in manifest")
    ELSE LET location == _extract_dataset_location(manifest.nodes[model_unique_id]) IN
    IF ~location.ok THEN location
    ELSE LET adapter_type == Get(manifest.metadata, "adapter_type", <<"unknown">>) IN
         Ok([namespace |-> adapter_type \o <<":", "//">> \o location.val.database,
             name      |-> location.val.schema \o <<".">> \o location.val.table])

extract_dataset_info(test_unique_id, manifest) ==
    IF test_unique_id \notin DOMAIN manifest.nodes
    THEN Raise("KeyError", "Test node not found in manifest")
    ELSE LET test_node    == manifest.nodes[test_unique_id]
             project_name == _extract_project_name(test_unique_id) IN
    IF ~project_name.ok THEN project_name
    ELSE LET model_name == _extract_model_name(test_node) IN
    IF ~model_name.ok THEN model_name
    ELSE LET model_unique_id ==
                 <<"model", ".">> \o project_name.val \o <<".">> \o model_name.val IN
    IF model_unique_id \notin DOMAIN manifest.nodes
    THEN Raise("KeyError", "Model node not found in manifest")
    ELSE LET location == _extract_dataset_location(manifest.nodes[model_unique_id]) IN
    IF ~location.ok THEN location
    ELSE LET adapter_type == Get(manifest.metadata, "adapter_type", <<"unknown">>) IN
         Ok([namespace |-> adapter_type \o <<":", "//">> \o location.val.database,
             name      |-> location.val.schema \o <<".">> \o location.val.table])

\* mutant: the status is compared as it is, without lower()
map_test_status_exact(dbt_status) == dbt_status = <<"pass">>

map_test_status(dbt_status) == lower(dbt_status) = <<"pass">>

---------------------------------------------------------------------------
(* emitter.py *)

\* mutant: the job name lands in the run id slot
create_wrapping_event_swapped(event_type, run_id, job_name, namespace) ==
    [eventType |-> event_type,
     run       |-> [runId |-> job_name],
     job       |-> [namespace |-> namespace, name |-> job_name],
     inputs    |-> <<>>,
     outputs   |-> <<>>]

create_wrapping_event(event_type, run_id, job_name, namespace) ==
    [eventType |-> event_type,
     run       |-> [runId |-> run_id],
     job       |-> [namespace |-> namespace, name |-> job_name],
     inputs    |-> <<>>,
     outputs   |-> <<>>]

\* The dict `grouped` keeps insertion order: a sequence of (urn, tests) items.
urnIndex(grouped, urn) ==
    IF \E i \in 1..Len(grouped) : grouped[i].urn = urn
    THEN CHOOSE i \in 1..Len(grouped) : grouped[i].urn = urn
    ELSE 0

\* the except clause around extract_dataset_info in group_tests_by_dataset
GroupingCaught == {"KeyError", "ValueError"}

\* mutant: a new key and a new entry are put in front instead of at the end
groupAppend_newest_first(grouped, dataset_urn, test, at) ==
    IF at = 0
    THEN Ok(<<[urn |-> dataset_urn, tests |-> <<test>>]>> \o grouped)
    ELSE Ok([grouped EXCEPT ![at].tests = <<test>> \o @])

\* grouped[dataset_urn].append(test), after `if dataset_urn not in grouped`;
\* `at` is the place of the key in the dict, 0 when it is not there
groupAppend(grouped, dataset_urn, test, at) ==
    IF at = 0
    THEN Ok(Append(grouped, [urn |-> dataset_urn, tests |-> <<test>>]))
    ELSE Ok([grouped EXCEPT ![at].tests = Append(@, test)])

\* the entry of the group of `result`
groupEntry(result, test_metadata) ==
    [unique_id   |-> result.unique_id,
     status      |-> result.status,
     failures    |-> result.failures,
     message     |-> result.message,
     test_name   |-> Get(test_metadata, "name", <<"unknown_test">>),
     column_name |-> Get(Get(test_metadata, "kwargs", <<>>), "column_name", NoneVal)]

\* the try / except around extract_dataset_info and what follows it;
\* `dataset_info` is how the call of extract_dataset_info ended
groupResolved(grouped, result, test_node, dataset_info, dataset_urn) ==
    IF ~dataset_info.ok
    THEN IF dataset_info.exc \in GroupingCaught THEN Ok(grouped) ELSE dataset_info
    ELSE groupAppend(grouped, dataset_urn,
                     groupEntry(result, Get(test_node, "test_metadata", <<>>)),
                     urnIndex(grouped, dataset_urn))

\* f"{dataset_info.namespace}:{dataset_info.name}"
datasetUrn(dataset_info) ==
    IF dataset_info.ok
    THEN dataset_info.val.namespace \o <<":">> \o dataset_info.val.name
    ELSE <<>>

\* One pass of the loop body of group_tests_by_dataset for `result`: the
\* dict after the pass, or the exception that leaves the loop.
groupStep(grouped, result, manifest) ==
    IF result.unique_id \notin DOMAIN manifest.nodes
    THEN Ok(grouped)
    ELSE IF DOMAIN manifest.nodes[result.unique_id] = {}
    THEN Ok(grouped)
    ELSE groupResolved(grouped, result, manifest.nodes[result.unique_id],
                       extract_dataset_info(result.unique_id, manifest),
                       datasetUrn(extract_dataset_info(result.unique_id, manifest)))

RECURSIVE groupLoop(_, _, _, _)
\* the rest of the loop after the pass for results[i] ended as `step`
groupNext(step, results, i, manifest) ==
    IF ~step.ok THEN step
    ELSE groupLoop(step.val, results, i + 1, manifest)

groupLoop(grouped, results, i, manifest) ==
    IF i > Len(results)
    THEN Ok(grouped)
    ELSE groupNext(groupStep(grouped, results[i], manifest), results, i, manifest)

group_tests_by_dataset(run_results, manifest) ==
    groupLoop(<<>>, run_results.results, 1, manifest)

\* mutant: the column is appended to the label whether there is one or not
Assertion_always_suffix(test) ==
    [assertion |-> test.test_name \o <<"(">> \o test.column_name \o <<")">>,
     success   |-> map_test_status(test.status),
     column    |-> IF Truthy(test.column_name) THEN test.column_name ELSE NoneVal]

Assertion(test) ==
    [assertion |-> IF Truthy(test.column_name)
                   THEN test.test_name \o <<"(">> \o test.column_name \o <<")">>
                   ELSE test.test_name,
     success   |-> map_test_status(test.status),
     column    |-> IF Truthy(test.column_name) THEN test.column_name ELSE NoneVal]

\* mutant: the facet is built after the loop from the last assertion alone
testEvent_last_assertion(item, generated_at, namespace, job_name, run_id) ==
    LET parts == split1(item.urn, ":") IN
    IF Len(parts) # 2
    THEN <<>>
    ELSE <<[eventType |-> "COMPLETE",
            eventTime |-> generated_at,
            run       |-> [runId |-> run_id],
            job       |-> [namespace |-> namespace, name |-> job_name],
            inputs    |-> <<[namespace |-> parts[1],
                             name      |-> parts[2],
                             assertions |->
                                 <<Assertion(item.tests[Len(item.tests)])>>]>>,
            outputs   |-> <<>>]>>

\* The event of one (urn, tests) item; <<>> when the urn does not split in two.
testEvent(item, generated_at, namespace, job_name, run_id) ==
    LET parts == split1(item.urn, ":") IN
    IF Len(parts) # 2
    THEN <<>>
    ELSE <<[eventType |-> "COMPLETE",
            eventTime |-> generated_at,
            run       |-> [runId |-> run_id],
            job       |-> [namespace |-> namespace, name |-> job_name],
            inputs    |-> <<[namespace |-> parts[1],
                             name      |-> parts[2],
                             assertions |->
                                 [k \in 1..Len(item.tests) |->
                                     Assertion(item.tests[k])]]>>,
            outputs   |-> <<>>]>>

RECURSIVE eventLoop(_, _, _, _, _, _)
eventLoop(grouped, i, generated_at, namespace, job_name, run_id) ==
    IF i > Len(grouped)
    THEN <<>>
    ELSE testEvent(grouped[i], generated_at, namespace, job_name, run_id)
         \o eventLoop(grouped, i + 1, generated_at, namespace, job_name, run_id)

\* the loop of construct_events over `grouped`, which is how
\* group_tests_by_dataset ended
eventsOf(grouped, generated_at, namespace, job_name, run_id) ==
    IF ~grouped.ok THEN grouped
    ELSE Ok(eventLoop(grouped.val, 1, generated_at, namespace, job_name, run_id))

construct_events(run_results, manifest, namespace, job_name, run_id) ==
    eventsOf(group_tests_by_dataset(run_results, manifest),
             run_results.metadata.generated_at, namespace, job_name, run_id)

\* What the network does with one POST: a response with a status and a body,
\* a connection failure, no connection within the deadline, or no answer within
\* the deadline.  requests raises ConnectionError for the first, ConnectTimeout
\* (a ConnectionError and a Timeout at once) for the second and ReadTimeout
\* (a Timeout) for the third.
Response(status, body) == [kind |-> "response", status |-> status, body |-> body]

ConnectionFailure == [kind |-> "connection_error"]

ConnectTimeout == [kind |-> "connect_timeout"]

Timeout == [kind |-> "timeout"]

\* the outcomes the clause `except requests.ConnectionError` catches; it comes
\* before `except requests.Timeout`
IsConnectionError(network) == network.kind \in {"connection_error", "connect_timeout"}

\* the outcomes the clause `except requests.Timeout` is left with
IsTimeout(network) == network.kind = "timeout"

\* response.json() followed by the subscripts of the 207 branch
partialSuccess(body) ==
    CASE body.kind = "bad_json" -> Raise("ValueError", "JSONDecodeError")
      [] body.kind = "array" -> Raise("TypeError", "list indices must be integers")
      [] OTHER ->
           IF "summary" \notin DOMAIN body.data
                \/ "successful" \notin DOMAIN body.data["summary"]
                \/ "received" \notin DOMAIN body.data["summary"]
           THEN Raise("KeyError", "summary")
           ELSE Ok(NoneVal)

\* mutant: a failed POST is tried a second time
emit_events_retry(events, network) ==
    IF events = <<>>
    THEN [posts |-> <<>>, result |-> Ok(NoneVal)]
    ELSE [posts  |-> IF IsConnectionError(network) \/ IsTimeout(network)
                     THEN <<events, events>> ELSE <<events>>,
          result |->
             CASE IsConnectionError(network) ->
                      Raise("ConnectionError", "Failed to connect to Correlator")
               [] IsTimeout(network) ->
                      Raise("TimeoutError", "Request to Correlator timed out after 30s")
               [] OTHER ->
                      IF network.status = 200 THEN Ok(NoneVal)
                      ELSE IF network.status = 207 THEN partialSuccess(network.body)
                      ELSE Raise("ValueError", <<"Correlator returned",
                                                 network.status, network.body>>)]

\* mutant: one except clause for both network failures, each reported as a
\* connection failure
emit_events_coarse(events, network) ==
    IF events = <<>>
    THEN [posts |-> <<>>, result |-> Ok(NoneVal)]
    ELSE [posts  |-> <<events>>,
          result |->
             CASE IsConnectionError(network) \/ IsTimeout(network) ->
                      Raise("ConnectionError", "Failed to connect to Correlator")
               [] OTHER ->
                      IF network.status = 200 THEN Ok(NoneVal)
                      ELSE IF network.status = 207 THEN partialSuccess(network.body)
                      ELSE Raise("ValueError", <<"Correlator returned",
                                                 network.status, network.body>>)]

\* emit_events: `posts` are the request bodies sent, `result` how the call ends.
\* `network` is the outcome of the POST, should one be made.
emit_events(events, network) ==
    IF events = <<>>
    THEN [posts |-> <<>>, result |-> Ok(NoneVal)]
    ELSE [posts  |-> <<events>>,
          result |->
             CASE IsConnectionError(network) ->
                      Raise("ConnectionError", "Failed to connect to Correlator")
               [] IsTimeout(network) ->
                      Raise("TimeoutError", "Request to Correlator timed out after 30s")
               [] OTHER ->
                      IF network.status = 200 THEN Ok(NoneVal)
                      ELSE IF network.status = 207 THEN partialSuccess(network.body)
                      ELSE Raise("ValueError", <<"Correlator returned",
                                                 network.status, network.body>>)]

---------------------------------------------------------------------------
(* Lineage side of the run and build workflows.  cli.py imports                *)
(* get_executed_models, extract_all_model_lineage, parse_model_results and     *)
(* construct_lineage_events; their bodies are not part of the sources at hand, *)
(* so they follow the specification: one lineage event per executed model      *)
(* whose dataset resolves, carrying the caller's run id and the model's        *)
(* dataset as output.                                                          *)

get_executed_models(run_results) ==
    SelectSeq([i \in 1..Len(run_results.results) |-> run_results.results[i].unique_id],
              LAMBDA id : id # <<>> /\ id[1] = "model")

lineageEvent(model_id, manifest, run_id, job_namespace) ==
    IF model_id \notin DOMAIN manifest.nodes
    THEN <<>>
    ELSE LET location == _extract_dataset_location(manifest.nodes[model_id]) IN
         IF ~location.ok
         THEN <<>>
         ELSE <<[eventType |-> "COMPLETE",
                 run       |-> [runId |-> run_id],
                 job       |-> [namespace |-> job_namespace, name |-> model_id],
                 inputs    |-> <<>>,
                 outputs   |->
                    <<[namespace |->
                           Get(manifest.metadata, "adapter_type", <<"unknown">>)
                               \o <<":", "//">> \o location.val.database,
                       name |-> location.val.schema \o <<".">>
                                    \o location.val.table]>>]>>

RECURSIVE lineageLoop(_, _, _, _, _)
lineageLoop(model_ids, i, manifest, run_id, job_namespace) ==
    IF i > Len(model_ids)
    THEN <<>>
    ELSE lineageEvent(model_ids[i], manifest, run_id, job_namespace)
         \o lineageLoop(model_ids, i + 1, manifest, run_id, job_namespace)

construct_lineage_events(run_results, manifest, run_id, job_namespace) ==
    lineageLoop(get_executed_models(run_results), 1, manifest, run_id, job_namespace)

---------------------------------------------------------------------------
(* The artifacts and the network of the model *)

TestUniqueA == <<"test", ".", "proj", ".", "unique_a_id">>

TestNotNullA == <<"test", ".", "proj", ".", "not_null_a">>

TestUniqueB == <<"test", ".", "proj", ".", "unique_b_id">>

TestGone == <<"test", ".", "proj", ".", "gone">>

ModelA == <<"model", ".", "proj", ".", "a">>

ModelB == <<"model", ".", "proj", ".", "b">>

NodesFull ==
    (TestUniqueA :>
        [refs |-> <<[name |-> <<"a">>]>>,
         test_metadata |-> [name |-> <<"unique">>,
                            kwargs |-> [column_name |-> <<"id">>]]])
    @@ (TestNotNullA :>
        [refs |-> <<[name |-> <<"a">>]>>,
         test_metadata |-> [name |-> <<"not_null">>]])
    @@ (TestUniqueB :>
        [refs |-> <<[name |-> <<"b">>], [name |-> <<"a">>]>>,
         test_metadata |-> [name |-> <<"unique">>,
                            kwargs |-> [column_name |-> <<"id">>]]])
    @@ (ModelA :>
        [database |-> <<"jaffle_shop">>, schema |-> <<"main">>, name |-> <<"a">>])
    @@ (ModelB :>
        [database |-> <<"jaffle_shop">>, schema |-> <<"main">>, name |-> <<"b">>,
         alias |-> <<"b_v2">>])

ManifestFull ==
    [nodes    |-> NodesFull,
     sources  |-> <<>>,
     metadata |-> [adapter_type |-> <<"duckdb">>, project_name |-> <<"proj">>]]

\* a second well-formed manifest, of another state of the project
ManifestOther ==
    [nodes    |-> (TestUniqueA :> [refs |-> <<[name |-> <<"a">>]>>])
                  @@ (ModelA :> [database |-> <<"analytics">>,
                                 schema |-> <<"public">>, name |-> <<"a">>]),
     sources  |-> <<>>,
     metadata |-> [dbt_version |-> <<"1.10.0">>]]

ManifestNoSources ==
    [nodes |-> NodesFull, metadata |-> [adapter_type |-> <<"duckdb">>]]

ManifestFiles ==
    {Missing, BadJson, Json(ManifestNoSources), Json(ManifestFull), Json(ManifestOther)}

MetadataOk ==
    [generated_at  |-> <<"2024-01-01T12:00:00", "Z">>,
     invocation_id |-> <<"inv">>,
     dbt_version   |-> <<"1.10.0">>]

RunResultsTests ==
    [metadata |-> MetadataOk,
     results  |-> <<[unique_id |-> TestUniqueA, status |-> <<"pass">>,
                     execution_time |-> 1],
                    [unique_id |-> TestNotNullA, status |-> <<"fail">>,
                     execution_time |-> 1, failures |-> <<"5">>],
                    [unique_id |-> TestUniqueB, status |-> <<"PASS">>]>>]

RunResultsBuild ==
    [metadata |-> MetadataOk,
     results  |-> <<[unique_id |-> ModelA, status |-> <<"success">>],
                    [unique_id |-> TestUniqueA, status |-> <<"error">>],
                    [unique_id |-> TestGone, status |-> <<"pass">>]>>]

RunResultsEmpty == [metadata |-> MetadataOk, elapsed_time |-> 2]

RunResultsNoMetadata == [results |-> <<>>]

RunResultsFiles ==
    {Missing, BadJson, Json(RunResultsNoMetadata), Json(RunResultsEmpty),
     Json(RunResultsTests), Json(RunResultsBuild)}

JsonArray == [kind |-> "array"]

SummaryOk == [summary |-> [successful |-> 1, received |-> 2]]

Networks ==
    {Response(200, Json(<<>>)),
     Response(207, Json(SummaryOk)),
     Response(207, Json(<<>>)),
     Response(207, BadJson),
     Response(207, JsonArray),
     Response(404, Json(<<>>)),
     Response(500, BadJson),
     ConnectionFailure,
     ConnectTimeout,
     Timeout}

---------------------------------------------------------------------------
(* cli.py: execute_test_workflow, execute_run_workflow, execute_build_workflow *)

VARIABLES
    workflow,          \* "test", "run" or "build": which command was invoked
    job_name_arg,      \* the --job-name option, NoneVal when not given
    skip_dbt_run,      \* the --skip-dbt-run flag
    manifest_file,     \* target/manifest.json on disk
    run_results_file,  \* target/run_results.json on disk
    pc,                \* position in the workflow function
    run_id,            \* local run_id
    job_name,          \* local job_name
    manifest,          \* local manifest: None or the parsed Manifest
    run_results,       \* local run_results: None or the parsed RunResults
    dbt_exit_code,     \* local dbt_exit_code
    start_event,       \* local start_event
    all_events,        \* local all_events, the final batch
    emit_calls,        \* the event lists handed to emit_events, in call order
    posts,             \* the request bodies POSTed to the endpoint, in order
    responses,         \* what the network did with each emit_events call
    log,               \* the steps taken so far, in order
    result,            \* how the invocation ended
    calls,             \* arguments of the calls made on a function on its own
    outcomes           \* how each of those calls ended: Ok(value) or Raise(...)

vars == <<workflow, job_name_arg, skip_dbt_run, manifest_file, run_results_file,
          pc, run_id, job_name, manifest, run_results, dbt_exit_code,
          start_event, all_events, emit_calls, posts, responses, log, result,
          calls, outcomes>>

None == [some |-> FALSE]

Some(v) == [some |-> TRUE, val |-> v]

Running == [kind |-> "running"]

Returned(code) == [kind |-> "returned", code |-> code]

\* an exception that leaves the workflow function uncaught
Uncaught(exc) == [kind |-> "raised", exc |-> exc]

Workflows == {"test", "run", "build"}

UUIDs == {<<"uuid-1">>, <<"uuid-2">>}

JobNameArgs == {NoneVal, <<"nightly">>}

OpenLineageNamespace == <<"dbt">>

\* the return codes of the dbt process: success, test failures, error, and
\* a negative code when a signal ended it
DbtReturnCodes == {0, 1, 2, -9}

DbtNotFoundExit == 127

ArtifactMissingExit == 1

get_default_job_name(m, command) ==
    Get(m.metadata, "project_name", <<"dbt">>) \o <<".", command>>

\* the except clause around emit_events in the three workflows
EmissionCaught == {"ConnectionError", "TimeoutError", "ValueError"}

\* mutant: the test workflow emits START on its own as well
emits_start_immediately_always(command) == TRUE

\* run and build emit START on its own before dbt runs; test keeps it for the batch
emits_start_immediately(command) == command \in {"run", "build"}

\* mutant: the terminal event is put in front of the batch
final_batch_terminal_first(command, start, lineage_events, test_events, terminal_event) ==
    CASE command = "test" -> <<start, terminal_event>> \o test_events
      [] command = "run" -> <<terminal_event>> \o lineage_events
      [] command = "build" -> <<terminal_event>> \o lineage_events \o test_events

\* all_events, the batch of step 7 (test), 9 (run) and 10 (build)
final_batch(command, start, lineage_events, test_events, terminal_event) ==
    CASE command = "test" -> <<start>> \o test_events \o <<terminal_event>>
      [] command = "run" -> lineage_events \o <<terminal_event>>
      [] command = "build" -> lineage_events \o test_events \o <<terminal_event>>

Init ==
    /\ workflow \in Workflows
    /\ job_name_arg \in JobNameArgs
    /\ skip_dbt_run \in BOOLEAN
    /\ manifest_file \in ManifestFiles
    /\ run_results_file \in RunResultsFiles
    /\ pc = "begin"
    /\ run_id = NoneVal
    /\ job_name = job_name_arg
    /\ manifest = None
    /\ run_results = None
    /\ dbt_exit_code = 0
    /\ start_event = None
    /\ all_events = <<>>
    /\ emit_calls = <<>>
    /\ posts = <<>>
    /\ responses = <<>>
    /\ log = <<>>
    /\ result = Running
    /\ calls = <<>>
    /\ outcomes = <<>>

\* mutant: step 1 reads and keeps the manifest also when a job name is supplied
Begin_parses_always ==
    /\ pc = "begin"
    /\ \E u \in UUIDs :
        LET parsed == parse_manifest(manifest_file)
            aborts == ~Truthy(job_name_arg) /\ ~parsed.ok
                          /\ parsed.exc # "FileNotFoundError"
            name   == IF Truthy(job_name_arg) THEN job_name_arg
                      ELSE IF parsed.ok
                           THEN get_default_job_name(parsed.val, workflow)
                           ELSE <<"dbt", ".", workflow>>
        IN  /\ run_id' = u
            /\ log' = IF Truthy(job_name_arg) THEN log
                      ELSE Append(log, "parse_manifest")
            /\ manifest' = IF parsed.ok THEN Some(parsed.val) ELSE None
            /\ IF aborts
               THEN /\ result' = Uncaught(parsed.exc)
                    /\ pc' = "done"
                    /\ UNCHANGED <<job_name, start_event>>
               ELSE /\ job_name' = name
                    /\ start_event' = Some(create_wrapping_event(
                                          "START", u, name, OpenLineageNamespace))
                    /\ pc' = IF emits_start_immediately(workflow)
                             THEN "emit_start" ELSE "run_dbt"
                    /\ UNCHANGED result
    /\ UNCHANGED <<calls, outcomes, workflow, job_name_arg, skip_dbt_run, manifest_file,
                   run_results_file, run_results, dbt_exit_code, all_events,
                   emit_calls, posts, responses>>

\* run_id = uuid4(); step 1, the manifest for the job name; step 2, START
Begin ==
    /\ pc = "begin"
    /\ \E u \in UUIDs :
        LET parsed == parse_manifest(manifest_file)
            aborts == ~Truthy(job_name_arg) /\ ~parsed.ok
                          /\ parsed.exc # "FileNotFoundError"
            name   == IF Truthy(job_name_arg) THEN job_name_arg
                      ELSE IF parsed.ok
                           THEN get_default_job_name(parsed.val, workflow)
                           ELSE <<"dbt", ".", workflow>>
        IN  /\ run_id' = u
            /\ log' = IF Truthy(job_name_arg) THEN log
                      ELSE Append(log, "parse_manifest")
            /\ manifest' = IF ~Truthy(job_name_arg) /\ parsed.ok
                           THEN Some(parsed.val) ELSE None
            /\ IF aborts
               THEN /\ result' = Uncaught(parsed.exc)
                    /\ pc' = "done"
                    /\ UNCHANGED <<job_name, start_event>>
               ELSE /\ job_name' = name
                    /\ start_event' = Some(create_wrapping_event(
                                          "START", u, name, OpenLineageNamespace))
                    /\ pc' = IF emits_start_immediately(workflow)
                             THEN "emit_start" ELSE "run_dbt"
                    /\ UNCHANGED result
    /\ UNCHANGED <<calls, outcomes, workflow, job_name_arg, skip_dbt_run, manifest_file,
                   run_results_file, run_results, dbt_exit_code, all_events,
                   emit_calls, posts, responses>>

\* run and build: "Emit START event immediately"
EmitStart ==
    /\ pc = "emit_start"
    /\ \E network \in Networks :
        LET sent == emit_events(<<start_event.val>>, network) IN
        /\ emit_calls' = Append(emit_calls, <<start_event.val>>)
        /\ posts' = posts \o sent.posts
        /\ responses' = Append(responses, network)
        /\ log' = Append(log, "emit_events")
        /\ IF sent.result.ok \/ sent.result.exc \in EmissionCaught
           THEN pc' = "run_dbt" /\ UNCHANGED result
           ELSE pc' = "done" /\ result' = Uncaught(sent.result.exc)
    /\ UNCHANGED <<calls, outcomes, workflow, job_name_arg, skip_dbt_run, manifest_file,
                   run_results_file, run_id, job_name, manifest, run_results,
                   dbt_exit_code, start_event, all_events>>

\* step 3 with skip_dbt_run: the process is not started
SkipDbt ==
    /\ pc = "run_dbt"
    /\ skip_dbt_run
    /\ pc' = "parse"
    /\ UNCHANGED <<calls, outcomes, workflow, job_name_arg, skip_dbt_run, manifest_file,
                   run_results_file, run_id, job_name, manifest, run_results,
                   dbt_exit_code, start_event, all_events, emit_calls, posts,
                   responses, log, result>>

\* mutant: the handler records 127 but does not return
DbtNotFound_no_return ==
    /\ pc = "run_dbt"
    /\ ~skip_dbt_run
    /\ log' = log \o <<"run_dbt_command", "FileNotFoundError">>
    /\ dbt_exit_code' = 127
    /\ pc' = "parse"
    /\ UNCHANGED <<calls, outcomes, workflow, job_name_arg, skip_dbt_run, manifest_file,
                   run_results_file, run_id, job_name, manifest, run_results,
                   start_event, all_events, emit_calls, posts, responses,
                   result>>

\* step 3: the dbt executable is not on the PATH
DbtNotFound ==
    /\ pc = "run_dbt"
    /\ ~skip_dbt_run
    /\ log' = log \o <<"run_dbt_command", "FileNotFoundError">>
    /\ result' = Returned(DbtNotFoundExit)
    /\ pc' = "done"
    /\ UNCHANGED <<calls, outcomes, workflow, job_name_arg, skip_dbt_run, manifest_file,
                   run_results_file, run_id, job_name, manifest, run_results,
                   dbt_exit_code, start_event, all_events, emit_calls, posts,
                   responses>>

\* step 3: dbt runs, leaves its artifacts on disk and exits
RunDbt ==
    /\ pc = "run_dbt"
    /\ ~skip_dbt_run
    /\ \E returncode \in DbtReturnCodes : dbt_exit_code' = returncode
    /\ manifest_file' \in ManifestFiles
    /\ run_results_file' \in RunResultsFiles
    /\ log' = Append(log, "run_dbt_command")
    /\ pc' = "parse"
    /\ UNCHANGED <<calls, outcomes, workflow, job_name_arg, skip_dbt_run, run_id, job_name,
                   manifest, run_results, start_event, all_events, emit_calls,
                   posts, responses, result>>

\* step 4: parse run_results.json, and manifest.json unless already parsed
ParseArtifacts ==
    /\ pc = "parse"
    /\ LET rr     == parse_run_results(run_results_file)
           m      == IF manifest.some THEN Ok(manifest.val)
                     ELSE parse_manifest(manifest_file)
           failed == IF ~rr.ok THEN rr ELSE m
       IN  /\ log' = log \o <<"parse_run_results">>
                         \o (IF rr.ok /\ ~manifest.some
                             THEN <<"parse_manifest">> ELSE <<>>)
           /\ IF rr.ok /\ m.ok
              THEN /\ run_results' = Some(rr.val)
                   /\ manifest' = Some(m.val)
                   /\ pc' = "build_events"
                   /\ UNCHANGED result
              ELSE /\ run_results' = IF rr.ok THEN Some(rr.val) ELSE None
                   /\ pc' = "done"
                   /\ result' = IF failed.exc = "FileNotFoundError"
                                THEN Returned(ArtifactMissingExit)
                                ELSE Uncaught(failed.exc)
                   /\ UNCHANGED manifest
    /\ UNCHANGED <<calls, outcomes, workflow, job_name_arg, skip_dbt_run, manifest_file,
                   run_results_file, run_id, job_name, dbt_exit_code,
                   start_event, all_events, emit_calls, posts, responses>>

\* mutant: exit code 1 (test failures) still counts as a completed run
terminal_type_failures_complete ==
    IF dbt_exit_code <= 1 THEN "COMPLETE" ELSE "FAIL"

terminal_type == IF dbt_exit_code = 0 THEN "COMPLETE" ELSE "FAIL"

\* the final batch is assembled from the events, or the exception that left
\* construct_events leaves the workflow
AssembleBatch(lineage_events, test_events, terminal_event) ==
    IF test_events.ok
    THEN /\ all_events' = final_batch(workflow, start_event.val, lineage_events,
                                      test_events.val, terminal_event)
         /\ pc' = "emit_final"
         /\ UNCHANGED result
    ELSE /\ result' = Uncaught(test_events.exc)
         /\ pc' = "done"
         /\ UNCHANGED all_events

\* the events of the final batch, from the parsed artifacts
BuildEvents ==
    /\ pc = "build_events"
    /\ AssembleBatch(
           construct_lineage_events(run_results.val, manifest.val, run_id,
                                    OpenLineageNamespace),
           IF workflow = "run" THEN Ok(<<>>)
           ELSE construct_events(run_results.val, manifest.val,
                                 OpenLineageNamespace, job_name, run_id),
           create_wrapping_event(terminal_type, run_id, job_name,
                                 OpenLineageNamespace))
    /\ log' = log \o (CASE workflow = "test" -> <<"construct_events">>
                        [] workflow = "run" -> <<"construct_lineage_events">>
                        [] workflow = "build" ->
                             <<"construct_lineage_events", "construct_events">>)
    /\ UNCHANGED <<calls, outcomes, workflow, job_name_arg, skip_dbt_run,
                   manifest_file, run_results_file, run_id, job_name, manifest,
                   run_results, dbt_exit_code, start_event, emit_calls, posts,
                   responses>>

\* the batch emission and the return of dbt's exit code
EmitFinal ==
    /\ pc = "emit_final"
    /\ \E network \in Networks :
        LET sent == emit_events(all_events, network) IN
        /\ emit_calls' = Append(emit_calls, all_events)
        /\ posts' = posts \o sent.posts
        /\ responses' = Append(responses, network)
        /\ log' = Append(log, "emit_events")
        /\ result' = IF sent.result.ok \/ sent.result.exc \in EmissionCaught
                     THEN Returned(dbt_exit_code)
                     ELSE Uncaught(sent.result.exc)
    /\ pc' = "done"
    /\ UNCHANGED <<calls, outcomes, workflow, job_name_arg, skip_dbt_run, manifest_file,
                   run_results_file, run_id, job_name, manifest, run_results,
                   dbt_exit_code, start_event, all_events>>

Next ==
    \/ Begin
    \/ EmitStart
    \/ SkipDbt
    \/ DbtNotFound
    \/ RunDbt
    \/ ParseArtifacts
    \/ BuildEvents
    \/ EmitFinal

Spec == Init /\ [][Next]_vars

---------------------------------------------------------------------------
(* Vocabulary of the properties *)

InLog(step) == \E i \in 1..Len(log) : log[i] = step

\* a START / COMPLETE / FAIL marker of the run: no inputs, no outputs
IsWrapping(e) == e.inputs = <<>> /\ e.outputs = <<>>

IsTerminalWrapping(e) == e.eventType \in {"COMPLETE", "FAIL"} /\ IsWrapping(e)

\* the final batch was built, handed to emit_events and the function is over
FinalBatchEmitted == pc = "done" /\ all_events # <<>>

NonZeroOutcome ==
    \/ result.kind = "raised"
    \/ result.kind = "returned" /\ result.code # 0

\* the dbt step (run or skipped) is behind the workflow
DbtStepOver ==
    \/ pc \in {"parse", "build_events", "emit_final"}
    \/ pc = "done" /\ InLog("parse_run_results")

\* the manifest in use was parsed in step 1, before the dbt step
ManifestFromStepOne ==
    manifest.some /\ ~(\E i \in 2..Len(log) : log[i] = "parse_manifest")

---------------------------------------------------------------------------
(* Properties of the workflows *)

\* C1: every event handed to emit_events, in every emission call of the
\* invocation, carries the run id generated at the start of the invocation.
C1_OneRunId ==
    /\ pc # "begin" => run_id \in UUIDs
    /\ \A c \in 1..Len(emit_calls) : \A k \in 1..Len(emit_calls[c]) :
           emit_calls[c][k].run.runId = run_id

C1_Witness ==
    /\ workflow = "build"
    /\ pc = "done"
    /\ Len(emit_calls) = 2
    /\ Len(emit_calls[2]) >= 3
    /\ run_id = <<"uuid-2">>

\* C2: once the dbt step is over and both artifacts have parsed, the workflow
\* returns dbt's exit code whatever the outcome of the emission.
C2_ExitCodeIsDbtExitCode ==
    FinalBatchEmitted => result = Returned(dbt_exit_code)

\* C3: in every workflow START goes out in an emission call of its own before
\* run results are parsed or events constructed, and an invocation that
\* reaches the end has made exactly two emission calls.
C3_StartEmittedOnItsOwn ==
    /\ \A i \in 1..Len(log) :
          log[i] \in {"parse_run_results", "construct_events",
                      "construct_lineage_events"}
          => /\ \E j \in 1..(i - 1) : log[j] = "emit_events"
             /\ Len(emit_calls) >= 1
             /\ emit_calls[1] = <<start_event.val>>
    /\ FinalBatchEmitted => Len(emit_calls) = 2

C5_TerminalEventLast ==
    all_events # <<>> =>
        LET n == Len(all_events) IN
        /\ IsTerminalWrapping(all_events[n])
        /\ \A i \in 1..(n - 1) : ~IsTerminalWrapping(all_events[i])
        /\ pc = "done" => emit_calls[Len(emit_calls)] = all_events

C5_Witness ==
    /\ workflow = "build"
    /\ pc = "done"
    /\ Len(all_events) >= 3
    /\ emit_calls[Len(emit_calls)] = all_events

\* C6: the terminal wrapping event is COMPLETE exactly when dbt exited 0 and
\* FAIL for every other exit code.
C6_TerminalKind ==
    all_events # <<>> =>
        LET terminal_event == all_events[Len(all_events)] IN
        /\ terminal_event.eventType = "COMPLETE" <=> dbt_exit_code = 0
        /\ dbt_exit_code # 0 => terminal_event.eventType = "FAIL"

C6_Witness ==
    /\ pc = "done"
    /\ all_events # <<>>
    /\ dbt_exit_code = 1
    /\ all_events[Len(all_events)].eventType = "FAIL"

\* target/run_results.json is missing, not JSON, or short of a required field
RunResultsArtifactBad ==
    \/ run_results_file.kind \in {"missing", "bad_json"}
    \/ "metadata" \notin DOMAIN run_results_file.data
    \/ \E k \in {"generated_at", "invocation_id", "dbt_version"} :
           k \notin DOMAIN run_results_file.data["metadata"]

\* target/manifest.json is missing, not JSON, or short of a required field
ManifestArtifactBad ==
    \/ manifest_file.kind \in {"missing", "bad_json"}
    \/ \E k \in {"nodes", "sources", "metadata"} :
           k \notin DOMAIN manifest_file.data

\* the final batch is neither built nor sent, and the invocation ends non-zero
NoFinalBatch ==
    /\ pc \notin {"build_events", "emit_final"}
    /\ all_events = <<>>
    /\ \A c \in 1..Len(emit_calls) : emit_calls[c] = <<start_event.val>>
    /\ pc = "done" => NonZeroOutcome

\* C7 as stated: after the dbt step, a run-results or manifest artifact that is
\* missing, not JSON or short of a required field ends the workflow non-zero
\* without a final batch.
C7_BadArtifactAborts ==
    (DbtStepOver /\ (RunResultsArtifactBad \/ ManifestArtifactBad))
    => NoFinalBatch

\* C7 amended: the same for the run-results artifact, and for the manifest
\* artifact unless the manifest was already parsed in step 1 (no job name
\* given), in which case the file is not read again.
C7_BadArtifactAbortsUnlessReused ==
    (DbtStepOver /\ (\/ RunResultsArtifactBad
                     \/ (ManifestArtifactBad /\ ~ManifestFromStepOne)))
    => NoFinalBatch

C7_Witness ==
    /\ pc = "done"
    /\ workflow = "build"
    /\ Len(emit_calls) = 1
    /\ ~RunResultsArtifactBad
    /\ manifest_file = Json(ManifestNoSources)
    /\ result = Uncaught("KeyError")

\* C8: when the dbt executable is not found the workflow returns 127, parses
\* no run results and sends no final batch and no terminal event.
C8_DbtNotFound ==
    InLog("FileNotFoundError") =>
        /\ pc = "done"
        /\ result = Returned(127)
        /\ ~InLog("parse_run_results")
        /\ run_results = None
        /\ all_events = <<>>
        /\ \A c \in 1..Len(emit_calls) : \A k \in 1..Len(emit_calls[c]) :
               emit_calls[c][k].eventType = "START"

C8_Witness ==
    /\ InLog("FileNotFoundError")
    /\ workflow = "run"
    /\ Len(emit_calls) = 1
    /\ result = Returned(127)

\* C9: with skip_dbt_run the dbt process is never started, and when both
\* artifacts have parsed the events are emitted and the workflow returns 0.
C9_SkipReturnsZero ==
    skip_dbt_run =>
        /\ ~InLog("run_dbt_command")
        /\ (pc = "done" /\ run_results.some /\ manifest.some)
           => /\ emit_calls # <<>>
              /\ emit_calls[Len(emit_calls)] = all_events
              /\ result = Returned(0)

---------------------------------------------------------------------------
(* emit_events on its own: a caller makes two calls, each with an event list  *)
(* of its choice (the empty list included) and any behaviour of the network.  *)
(* log records how each call ended.                                           *)

MaxEvents == 2

EventPool ==
    {create_wrapping_event("START", <<"uuid-1">>, <<"nightly">>, OpenLineageNamespace),
     create_wrapping_event("FAIL", <<"uuid-1">>, <<"nightly">>, OpenLineageNamespace),
     [eventType |-> "COMPLETE",
      eventTime |-> <<"2024-01-01T12:00:00", "+00:00">>,
      run       |-> [runId |-> <<"uuid-1">>],
      job       |-> [namespace |-> OpenLineageNamespace, name |-> <<"nightly">>],
      inputs    |-> <<[namespace |-> <<"duckdb">>,
                       name |-> <<"//", "jaffle_shop", ":", "main", ".", "a">>,
                       assertions |-> <<[assertion |-> <<"unique", "(", "id", ")">>,
                                         success |-> TRUE,
                                         column |-> <<"id">>]>>]>>,
      outputs   |-> <<>>]}

EventLists == UNION {[1..n -> EventPool] : n \in 0..MaxEvents}

InitEmit ==
    /\ workflow = "emit_events"
    /\ job_name_arg = NoneVal
    /\ skip_dbt_run = TRUE
    /\ manifest_file = Missing
    /\ run_results_file = Missing
    /\ pc = "first_call"
    /\ run_id = NoneVal
    /\ job_name = NoneVal
    /\ manifest = None
    /\ run_results = None
    /\ dbt_exit_code = 0
    /\ start_event = None
    /\ all_events = <<>>
    /\ emit_calls = <<>>
    /\ posts = <<>>
    /\ responses = <<>>
    /\ log = <<>>
    /\ result = Running
    /\ calls = <<>>
    /\ outcomes = <<>>

CallEmitEvents ==
    /\ pc \in {"first_call", "second_call"}
    /\ \E events \in EventLists, network \in Networks :
        LET sent == emit_events(events, network) IN
        /\ all_events' = events
        /\ emit_calls' = Append(emit_calls, events)
        /\ posts' = posts \o sent.posts
        /\ responses' = Append(responses, network)
        /\ log' = Append(log, IF sent.result.ok THEN "returned"
                              ELSE sent.result.exc)
        /\ outcomes' = Append(outcomes, sent.result)
    /\ pc' = IF pc = "first_call" THEN "second_call" ELSE "done"
    /\ UNCHANGED <<calls, workflow, job_name_arg, skip_dbt_run, manifest_file,
                   run_results_file, run_id, job_name, manifest, run_results,
                   dbt_exit_code, start_event, result>>

NextEmit == CallEmitEvents

SpecEmit == InitEmit /\ [][NextEmit]_vars

\* C10: a call of emit_events with an empty list sends no request; a call with
\* a non-empty list sends exactly one request, whose body is the whole list,
\* whatever the network does with it.
C10_OneRequestPerCall ==
    posts = SelectSeq(emit_calls, LAMBDA events : events # <<>>)

C10_Witness ==
    /\ Len(emit_calls) = 2
    /\ emit_calls[1] = <<>>
    /\ Len(emit_calls[2]) = 2
    /\ responses[2] = Timeout
    /\ log[2] = "TimeoutError"
    /\ Len(posts) = 1

\* the calls of emit_events that sent a request
Requested == {c \in 1..Len(emit_calls) : emit_calls[c] # <<>>}

C12_PartialSuccessReturns ==
    \A c \in Requested :
        (responses[c].kind = "response" /\ responses[c].status = 207)
            => outcomes[c].ok

---------------------------------------------------------------------------
(* extract_dataset_info on its own: a caller resolves two node ids of its      *)
(* choice against one manifest.  calls holds the ids, outcomes the DatasetInfo *)
(* returned or the exception raised.                                           *)

TestOnlyB == <<"test", ".", "proj", ".", "not_null_b">>

TestShop == <<"test", ".", "shop", ".", "unique_a_id">>

Orphan == <<"orphan">>

TestNoRefs == <<"test", ".", "proj", ".", "no_refs">>

TestRefsAbsent == <<"test", ".", "proj", ".", "singular">>

TestUnnamed == <<"test", ".", "proj", ".", "unnamed_then_a">>

TestUnnamedOnly == <<"test", ".", "proj", ".", "unnamed">>

TestNullName == <<"test", ".", "proj", ".", "null_name">>

TestLost == <<"test", ".", "proj", ".", "lost_then_a">>

TestLostOnly == <<"test", ".", "proj", ".", "lost">>

TestEmptyNode == <<"test", ".", "proj", ".", "empty_node">>

TestDraft == <<"test", ".", "proj", ".", "unique_draft_id">>

ModelDraft == <<"model", ".", "proj", ".", "draft">>

ModelShopA == <<"model", ".", "shop", ".", "a">>

\* test nodes that fail at one step of the resolution each, next to the nodes
\* of NodesFull
NodesBroken ==
    (TestOnlyB :>
        [refs |-> <<[name |-> <<"b">>]>>,
         test_metadata |-> [name |-> <<"not_null">>,
                            kwargs |-> [column_name |-> <<"id">>]]])
    @@ (TestShop :>
        [refs |-> <<[name |-> <<"a">>]>>,
         test_metadata |-> [name |-> <<"accepted_values">>, kwargs |-> <<>>]])
    @@ (Orphan :> [refs |-> <<[name |-> <<"a">>]>>])
    @@ (TestNoRefs :> [refs |-> <<>>, test_metadata |-> [name |-> <<"unique">>]])
    @@ (TestRefsAbsent :> [test_metadata |-> [name |-> <<"unique">>]])
    @@ (TestUnnamed :> [refs |-> <<[package |-> <<"proj">>], [name |-> <<"a">>]>>])
    @@ (TestUnnamedOnly :> [refs |-> <<[package |-> <<"proj">>]>>])
    @@ (TestNullName :> [refs |-> <<[name |-> NoneVal]>>])
    @@ (TestLost :> [refs |-> <<[name |-> <<"lost">>], [name |-> <<"a">>]>>])
    @@ (TestLostOnly :> [refs |-> <<[name |-> <<"lost">>]>>])
    @@ (TestEmptyNode :> <<>>)
    @@ (TestDraft :> [refs |-> <<[name |-> <<"draft">>]>>])
    @@ (ModelDraft :> [database |-> <<"jaffle_shop">>, name |-> <<"draft">>])
    @@ (ModelShopA :> [database |-> <<"shop_db">>, schema |-> <<"main">>,
                       name |-> <<"a">>])

\* the shapes of the model node the tests of model "a" resolve to
ModelNodes ==
    {[database |-> <<"jaffle_shop">>, schema |-> <<"main">>, name |-> <<"a">>],
     [database |-> <<"jaffle_shop">>, schema |-> <<"main">>, name |-> <<"a">>,
      alias |-> <<"a_v2">>],
     [database |-> <<"jaffle_shop">>, schema |-> <<"main">>, name |-> <<"a">>,
      alias |-> NoneVal],
     [database |-> <<"jaffle_shop">>, schema |-> <<"main">>, name |-> <<"a">>,
      alias |-> <<>>],
     [database |-> <<"jaffle_shop">>, schema |-> <<"main">>, alias |-> <<"a_v2">>],
     [database |-> <<"jaffle_shop">>, schema |-> <<"main">>, alias |-> NoneVal],
     [database |-> <<"jaffle_shop">>, schema |-> <<"main">>],
     [database |-> <<"jaffle_shop">>, name |-> <<"a">>],
     [schema |-> <<"main">>, name |-> <<"a">>]}

Metadatas == {[adapter_type |-> <<"duckdb">>], [dbt_version |-> <<"1.10.0">>]}

ManifestWith(model_node, metadata) ==
    [nodes    |-> (ModelA :> model_node) @@ NodesBroken @@ NodesFull,
     sources  |-> <<>>,
     metadata |-> metadata]

ResolverManifests ==
    {ManifestWith(model_node, metadata) :
        model_node \in ModelNodes, metadata \in Metadatas}

NodeIds ==
    {TestUniqueA, TestUniqueB, TestOnlyB, TestShop, TestGone, Orphan, TestNoRefs,
     TestRefsAbsent, TestUnnamed, TestUnnamedOnly, TestNullName, TestLost,
     TestLostOnly, TestEmptyNode, TestDraft}

InitResolve ==
    /\ workflow = "extract_dataset_info"
    /\ job_name_arg = NoneVal
    /\ skip_dbt_run = TRUE
    /\ manifest_file = Missing
    /\ run_results_file = Missing
    /\ pc = "first_call"
    /\ run_id = NoneVal
    /\ job_name = NoneVal
    /\ manifest \in {Some(m) : m \in ResolverManifests}
    /\ run_results = None
    /\ dbt_exit_code = 0
    /\ start_event = None
    /\ all_events = <<>>
    /\ emit_calls = <<>>
    /\ posts = <<>>
    /\ responses = <<>>
    /\ log = <<>>
    /\ result = Running
    /\ calls = <<>>
    /\ outcomes = <<>>

CallExtractDatasetInfo ==
    /\ pc \in {"first_call", "second_call"}
    /\ \E test_unique_id \in NodeIds :
        /\ calls' = Append(calls, test_unique_id)
        /\ outcomes' = Append(outcomes,
                              extract_dataset_info(test_unique_id, manifest.val))
    /\ pc' = IF pc = "first_call" THEN "second_call" ELSE "done"
    /\ UNCHANGED <<workflow, job_name_arg, skip_dbt_run, manifest_file,
                   run_results_file, run_id, job_name, manifest, run_results,
                   dbt_exit_code, start_event, all_events, emit_calls, posts,
                   responses, log, result>>

NextResolve == CallExtractDatasetInfo

SpecResolve == InitResolve /\ [][NextResolve]_vars

\* The step of the resolution at which `test_unique_id` fails under manifest
\* `m`, stated on the manifest document; "none" when every step succeeds.
FailureMode(test_unique_id, m) ==
    IF test_unique_id \notin DOMAIN m.nodes THEN "unknown node"
    ELSE IF Len(split(test_unique_id, ".")) < 2 THEN "invalid id format"
    ELSE LET node == m.nodes[test_unique_id] IN
    IF "refs" \notin DOMAIN node \/ Len(node.refs) = 0 THEN "empty reference list"
    ELSE IF "name" \notin DOMAIN node.refs[1] \/ ~Truthy(node.refs[1].name)
    THEN "unnamed first reference"
    ELSE LET model_id == <<"model", ".">> \o split(test_unique_id, ".")[2]
                             \o <<".">> \o node.refs[1].name IN
    IF model_id \notin DOMAIN m.nodes THEN "unknown target model"
    ELSE LET model == m.nodes[model_id] IN
    IF \/ "database" \notin DOMAIN model
       \/ "schema" \notin DOMAIN model
       \/ /\ ~("alias" \in DOMAIN model /\ Truthy(model.alias))
          /\ "name" \notin DOMAIN model
    THEN "incomplete location"
    ELSE "none"

\* the model node "model.<project>.<first reference name>" of a test node
TargetModel(test_unique_id, m) ==
    m.nodes[<<"model", ".">> \o split(test_unique_id, ".")[2] \o <<".">>
                \o m.nodes[test_unique_id].refs[1].name]

\* C13: when every resolution step succeeds, the identity returned has
\* namespace adapter_type://database ("unknown" for an absent adapter_type)
\* and name schema.table of the node model.<project>.<first reference name>,
\* the table being the alias when the model has one and its name otherwise.
C13_IdentityComposition ==
    \A c \in 1..Len(calls) :
        FailureMode(calls[c], manifest.val) = "none" =>
            LET model == TargetModel(calls[c], manifest.val)
                table == IF "alias" \in DOMAIN model /\ Truthy(model.alias)
                         THEN model.alias ELSE model.name
                adapter_type ==
                    IF "adapter_type" \in DOMAIN manifest.val.metadata
                    THEN manifest.val.metadata.adapter_type ELSE <<"unknown">>
            IN  outcomes[c] =
                    Ok([namespace |-> adapter_type \o <<":", "//">> \o model.database,
                        name      |-> model.schema \o <<".">> \o table])

C13_Witness ==
    /\ calls = <<TestUniqueA, TestShop>>
    /\ outcomes[1] = Ok([namespace |-> <<"unknown", ":", "//", "jaffle_shop">>,
                         name      |-> <<"main", ".", "a_v2">>])
    /\ outcomes[2] = Ok([namespace |-> <<"unknown", ":", "//", "shop_db">>,
                         name      |-> <<"main", ".", "a">>])
    /\ "name" \in DOMAIN manifest.val.nodes[ModelA]

\* C14: two test nodes of one project whose reference lists start with the
\* same reference, one of them holding that reference alone, resolve to the
\* same outcome: the same identity or the same failure.
C14_FirstReferenceOnly ==
    \A c, d \in 1..Len(calls) :
        LET nodes == manifest.val.nodes IN
        (/\ calls[c] \in DOMAIN nodes
         /\ calls[d] \in DOMAIN nodes
         /\ Len(split(calls[c], ".")) >= 2
         /\ Len(split(calls[d], ".")) >= 2
         /\ split(calls[c], ".")[2] = split(calls[d], ".")[2]
         /\ "refs" \in DOMAIN nodes[calls[c]]
         /\ "refs" \in DOMAIN nodes[calls[d]]
         /\ Len(nodes[calls[c]].refs) >= 2
         /\ nodes[calls[d]].refs = <<nodes[calls[c]].refs[1]>>)
        => outcomes[c] = outcomes[d]

C14_Witness ==
    /\ calls = <<TestUniqueB, TestOnlyB>>
    /\ Len(manifest.val.nodes[TestUniqueB].refs) = 2
    /\ manifest.val.nodes[TestOnlyB].refs = <<manifest.val.nodes[TestUniqueB].refs[1]>>
    /\ outcomes[1].ok
    /\ outcomes[2] = outcomes[1]

\* C15: extract_dataset_info returns an identity exactly when the node id is
\* in the node map, has 2 or more segments, the reference list is not empty,
\* its first reference is named, the composed model id is in the node map and
\* the model has database, schema and an alias or a name; otherwise it raises
\* and returns nothing.
C15_IdentityOnlyWhenResolved ==
    \A c \in 1..Len(calls) :
        /\ outcomes[c].ok <=> FailureMode(calls[c], manifest.val) = "none"
        /\ outcomes[c].ok => DOMAIN outcomes[c].val = {"namespace", "name"}
        /\ ~outcomes[c].ok => "val" \notin DOMAIN outcomes[c]

C15_Witness ==
    /\ calls = <<TestShop, TestUniqueA>>
    /\ outcomes[1].ok
    /\ ~outcomes[2].ok
    /\ FailureMode(TestUniqueA, manifest.val) = "incomplete location"
    /\ "schema" \notin DOMAIN manifest.val.nodes[ModelA]

\* C16: two resolutions that fail raise the same error, exception class and
\* message taken together, exactly when they fail at the same step, so the
\* error names the step.
C16_DistinctErrors ==
    \A c, d \in 1..Len(calls) :
        (~outcomes[c].ok /\ ~outcomes[d].ok) =>
            ((FailureMode(calls[c], manifest.val) = FailureMode(calls[d], manifest.val))
             <=> (/\ outcomes[c].exc = outcomes[d].exc
                  /\ outcomes[c].msg = outcomes[d].msg))

C16_Witness ==
    /\ Len(calls) = 2
    /\ FailureMode(calls[1], manifest.val) = "unknown node"
    /\ FailureMode(calls[2], manifest.val) = "unknown target model"
    /\ outcomes[1].exc = "KeyError"
    /\ outcomes[2].exc = "KeyError"
    /\ outcomes[1].msg # outcomes[2].msg

---------------------------------------------------------------------------
(* group_tests_by_dataset and construct_events on their own: a caller groups   *)
(* the results of one run summary against one manifest, then builds the        *)
(* quality events of the same pair.  outcomes[1] is what the grouping          *)
(* returned, outcomes[2] what construct_events returned.                       *)

MaxResults == 3

\* results of tests that resolve, and one result per way of not resolving
ResultPool ==
    {TestResult(result_dict) : result_dict \in
        {[unique_id |-> TestUniqueA, status |-> <<"pass">>],
         [unique_id |-> TestNotNullA, status |-> <<"fail">>, failures |-> <<"5">>],
         [unique_id |-> TestUniqueB, status |-> <<"PASS">>],
         [unique_id |-> TestOnlyB],
         [unique_id |-> TestShop, status |-> <<"error">>,
          message |-> <<"Database Error">>],
         [unique_id |-> TestGone, status |-> <<"pass">>],
         [unique_id |-> Orphan, status |-> <<"pass">>],
         [unique_id |-> TestNoRefs, status |-> <<"pass">>],
         [unique_id |-> TestUnnamed, status |-> <<"fail">>],
         [unique_id |-> TestLost, status |-> <<"pass">>],
         [unique_id |-> TestDraft, status |-> <<"pass">>],
         [unique_id |-> TestEmptyNode, status |-> <<"pass">>]}}

ResultLists == UNION {[1..n -> ResultPool] : n \in 0..MaxResults}

GroupManifests ==
    {ManifestWith([database |-> <<"jaffle_shop">>, schema |-> <<"main">>,
                   name |-> <<"a">>], [adapter_type |-> <<"duckdb">>])}

InitGroup ==
    /\ workflow = "construct_events"
    /\ job_name_arg = NoneVal
    /\ skip_dbt_run = TRUE
    /\ manifest_file = Missing
    /\ run_results_file = Missing
    /\ pc = "group"
    /\ run_id = <<"uuid-1">>
    /\ job_name = <<"nightly">>
    /\ manifest \in {Some(m) : m \in GroupManifests}
    /\ run_results \in
          {Some([metadata |-> [generated_at |-> <<"2024-01-01T12:00:00", "+00:00">>,
                               invocation_id |-> <<"inv">>,
                               dbt_version |-> <<"1.10.0">>,
                               elapsed_time |-> 0],
                 results  |-> results]) : results \in ResultLists}
    /\ dbt_exit_code = 0
    /\ start_event = None
    /\ all_events = <<>>
    /\ emit_calls = <<>>
    /\ posts = <<>>
    /\ responses = <<>>
    /\ log = <<>>
    /\ result = Running
    /\ calls = <<>>
    /\ outcomes = <<>>

CallGroupTests ==
    /\ pc = "group"
    /\ outcomes' = <<group_tests_by_dataset(run_results.val, manifest.val)>>
    /\ pc' = "construct"
    /\ UNCHANGED <<calls, workflow, job_name_arg, skip_dbt_run, manifest_file,
                   run_results_file, run_id, job_name, manifest, run_results,
                   dbt_exit_code, start_event, all_events, emit_calls, posts,
                   responses, log, result>>

CallConstructEvents ==
    /\ pc = "construct"
    /\ outcomes' = Append(outcomes,
                          construct_events(run_results.val, manifest.val,
                                           OpenLineageNamespace, job_name, run_id))
    /\ all_events' = IF outcomes'[2].ok THEN outcomes'[2].val ELSE all_events
    /\ pc' = "done"
    /\ UNCHANGED <<calls, workflow, job_name_arg, skip_dbt_run, manifest_file,
                   run_results_file, run_id, job_name, manifest, run_results,
                   dbt_exit_code, start_event, emit_calls, posts, responses,
                   log, result>>

NextGroup ==
    \/ CallGroupTests
    \/ CallConstructEvents

SpecGroup == InitGroup /\ [][NextGroup]_vars

\* the result `r` of the run summary resolves to a dataset
Resolves(r) == FailureMode(r.unique_id, manifest.val) = "none"

\* the key "namespace:name" of the dataset a resolving test id stands for,
\* stated on the manifest document
DatasetUrn(test_unique_id, m) ==
    LET model == TargetModel(test_unique_id, m) IN
    (IF "adapter_type" \in DOMAIN m.metadata
     THEN m.metadata.adapter_type ELSE <<"unknown">>)
    \o <<":", "//">> \o model.database \o <<":">> \o model.schema \o <<".">>
    \o (IF "alias" \in DOMAIN model /\ Truthy(model.alias)
        THEN model.alias ELSE model.name)

\* what an entry of a group, or a result of the run summary, says of the result
Source(t) ==
    [unique_id |-> t.unique_id, status |-> t.status,
     failures |-> t.failures, message |-> t.message]

\* the places (group, position) where result `r` appears in `grouped`
Occurrences(grouped, r) ==
    {p \in (1..Len(grouped)) \X (1..MaxResults) :
        /\ p[2] <= Len(grouped[p[1]].tests)
        /\ Source(grouped[p[1]].tests[p[2]]) = Source(r)}

C18_OrderPreserved ==
    (Len(outcomes) >= 1 /\ outcomes[1].ok) =>
        LET grouped == outcomes[1].val
            results == run_results.val.results
            InGroup(r, g) == /\ Resolves(r)
                             /\ DatasetUrn(r.unique_id, manifest.val) = grouped[g].urn
            members(g) == SelectSeq(results, LAMBDA r : InGroup(r, g))
            first(g) == CHOOSE i \in 1..Len(results) :
                            /\ InGroup(results[i], g)
                            /\ \A j \in 1..(i - 1) : ~InGroup(results[j], g)
        IN  /\ \A g \in 1..Len(grouped) : members(g) # <<>>
            /\ \A g, h \in 1..Len(grouped) : g < h => first(g) < first(h)
            /\ \A g \in 1..Len(grouped) :
                   /\ Len(grouped[g].tests) = Len(members(g))
                   /\ \A k \in 1..Len(members(g)) :
                          Source(grouped[g].tests[k]) = Source(members(g)[k])

C18_Witness ==
    /\ Len(outcomes) >= 1
    /\ Len(run_results.val.results) = 3
    /\ run_results.val.results[1].unique_id = TestUniqueB
    /\ run_results.val.results[2].unique_id = TestNotNullA
    /\ run_results.val.results[3].unique_id = TestOnlyB
    /\ Len(outcomes[1].val) = 2
    /\ outcomes[1].val[1].urn =
           <<"duckdb", ":", "//", "jaffle_shop", ":", "main", ".", "b_v2">>
    /\ Len(outcomes[1].val[1].tests) = 2
    /\ outcomes[1].val[1].tests[2].unique_id = TestOnlyB
    /\ outcomes[1].val[2].tests[1].unique_id = TestNotNullA

\* the label of an assertion: the test name, with the column when there is one
Label(test) ==
    IF test.column_name # NoneVal /\ test.column_name # <<>>
    THEN test.test_name \o <<"(">> \o test.column_name \o <<")">>
    ELSE test.test_name

\* C19: construct_events returns one event per group of the grouping, in the
\* order of the groups; the event of a group lists one assertion per entry of
\* the group, in the order of the entries, so at least one; results (pass,
\* fail) on one dataset give one event with success values [true, false].
C19_OneEventPerGroup ==
    Len(outcomes) = 2 =>
        /\ outcomes[1].ok
        /\ outcomes[2].ok
        /\ LET grouped == outcomes[1].val
               events  == outcomes[2].val
               results == run_results.val.results
           IN  /\ Len(events) = Len(grouped)
               /\ \A g \in 1..Len(grouped) :
                      /\ Len(events[g].inputs) = 1
                      /\ LET assertions == events[g].inputs[1].assertions
                             tests == grouped[g].tests
                         IN  /\ Len(assertions) = Len(tests)
                             /\ Len(assertions) >= 1
                             /\ \A k \in 1..Len(tests) :
                                    assertions[k].assertion = Label(tests[k])
               /\ (/\ Len(results) = 2
                   /\ results[1].status = <<"pass">>
                   /\ results[2].status = <<"fail">>
                   /\ Resolves(results[1])
                   /\ Resolves(results[2])
                   /\ DatasetUrn(results[1].unique_id, manifest.val)
                        = DatasetUrn(results[2].unique_id, manifest.val))
                  => /\ Len(events) = 1
                     /\ Len(events[1].inputs[1].assertions) = 2
                     /\ events[1].inputs[1].assertions[1].success = TRUE
                     /\ events[1].inputs[1].assertions[2].success = FALSE

C19_Witness ==
    /\ Len(outcomes) = 2
    /\ Len(run_results.val.results) = 2
    /\ run_results.val.results[1].unique_id = TestUniqueA
    /\ run_results.val.results[1].status = <<"pass">>
    /\ run_results.val.results[2].unique_id = TestNotNullA
    /\ run_results.val.results[2].status = <<"fail">>
    /\ Len(all_events) = 1
    /\ Len(all_events[1].inputs[1].assertions) = 2
    /\ all_events[1].inputs[1].assertions[1].assertion = <<"unique", "(", "id", ")">>
    /\ all_events[1].inputs[1].assertions[2].assertion = <<"not_null">>

---------------------------------------------------------------------------
(* map_test_status as construct_events uses it: two assertions are built from *)
(* test entries with a status string of the caller's choice.  calls holds the *)
(* strings, outcomes the assertions.                                           *)

Statuses ==
    {<<"pass">>, <<"PASS">>, <<"Pass">>, <<"pAsS">>, <<"fail">>, <<"FAIL">>,
     <<"error">>, <<"skipped">>, <<"warn">>, <<>>, <<"passed">>, <<"success">>,
     <<"pass", ".", "pass">>}

InitStatus ==
    /\ workflow = "map_test_status"
    /\ job_name_arg = NoneVal
    /\ skip_dbt_run = TRUE
    /\ manifest_file = Missing
    /\ run_results_file = Missing
    /\ pc = "first_call"
    /\ run_id = NoneVal
    /\ job_name = NoneVal
    /\ manifest = None
    /\ run_results = None
    /\ dbt_exit_code = 0
    /\ start_event = None
    /\ all_events = <<>>
    /\ emit_calls = <<>>
    /\ posts = <<>>
    /\ responses = <<>>
    /\ log = <<>>
    /\ result = Running
    /\ calls = <<>>
    /\ outcomes = <<>>

\* one assertion of construct_events: success = map_test_status(test["status"])
CallMapTestStatus ==
    /\ pc \in {"first_call", "second_call"}
    /\ \E dbt_status \in Statuses :
        /\ calls' = Append(calls, dbt_status)
        /\ outcomes' = Append(outcomes,
                              Ok(Assertion([test_name   |-> <<"unique">>,
                                            column_name |-> <<"id">>,
                                            status      |-> dbt_status])))
    /\ pc' = IF pc = "first_call" THEN "second_call" ELSE "done"
    /\ UNCHANGED <<workflow, job_name_arg, skip_dbt_run, manifest_file,
                   run_results_file, run_id, job_name, manifest, run_results,
                   dbt_exit_code, start_event, all_events, emit_calls, posts,
                   responses, log, result>>

NextStatus == CallMapTestStatus

SpecStatus == InitStatus /\ [][NextStatus]_vars

\* the spellings of "pass" among the statuses of the model
PassSpellings == {<<"pass">>, <<"PASS">>, <<"Pass">>, <<"pAsS">>}

\* C20: the success flag of an assertion is true exactly when the status of
\* its result is "pass" in some spelling of letter case, and false for every
\* other status string.
C20_SuccessIffPass ==
    \A c \in 1..Len(calls) :
        outcomes[c].val.success = (calls[c] \in PassSpellings)

C20_Witness ==
    /\ calls = <<<<"PASS">>, <<>>>>
    /\ outcomes[1].val.success = TRUE
    /\ outcomes[2].val.success = FALSE

---------------------------------------------------------------------------
(* group_tests_by_dataset and construct_events on a project with more kinds   *)
(* of node: tests with each shape of test metadata, models whose database or  *)
(* schema holds a ":", and a model that selects from another model.           *)

MaxTests == 2

TestSingular == <<"test", ".", "proj", ".", "assert_positive">>

TestNoName == <<"test", ".", "proj", ".", "anonymous_a_id">>

TestNullColumn == <<"test", ".", "proj", ".", "relationships_a">>

TestEmptyColumn == <<"test", ".", "proj", ".", "expression_a">>

TestColonDb == <<"test", ".", "proj", ".", "unique_c1_id">>

TestColonSchema == <<"test", ".", "proj", ".", "unique_c2_id">>

ModelColonDb == <<"model", ".", "proj", ".", "c1">>

ModelColonSchema == <<"model", ".", "proj", ".", "c2">>

ModelChild == <<"model", ".", "proj", ".", "child">>

NodesVaried ==
    (TestSingular :> [refs |-> <<[name |-> <<"a">>]>>])
    @@ (TestNoName :>
        [refs |-> <<[name |-> <<"a">>]>>,
         test_metadata |-> [kwargs |-> [column_name |-> <<"id">>]]])
    @@ (TestNullColumn :>
        [refs |-> <<[name |-> <<"a">>]>>,
         test_metadata |-> [name |-> <<"relationships">>,
                            kwargs |-> [column_name |-> NoneVal]]])
    @@ (TestEmptyColumn :>
        [refs |-> <<[name |-> <<"a">>]>>,
         test_metadata |-> [name |-> <<"expression_is_true">>,
                            kwargs |-> [column_name |-> <<>>]]])
    @@ (TestColonDb :>
        [refs |-> <<[name |-> <<"c1">>]>>,
         test_metadata |-> [name |-> <<"unique">>,
                            kwargs |-> [column_name |-> <<"id">>]]])
    @@ (TestColonSchema :>
        [refs |-> <<[name |-> <<"c2">>]>>,
         test_metadata |-> [name |-> <<"unique">>,
                            kwargs |-> [column_name |-> <<"id">>]]])
    @@ (ModelColonDb :>
        [database |-> <<"x", ":", "y">>, schema |-> <<"z">>, name |-> <<"c1">>,
         alias |-> <<"t">>, refs |-> <<>>])
    @@ (ModelColonSchema :>
        [database |-> <<"x">>, schema |-> <<"y", ":", "z">>, name |-> <<"c2">>,
         alias |-> <<"t">>, refs |-> <<>>])
    @@ (ModelChild :>
        [database |-> <<"jaffle_shop">>, schema |-> <<"main">>,
         name |-> <<"child">>, refs |-> <<[name |-> <<"a">>]>>])

ManifestVaried ==
    [nodes    |-> NodesVaried
                  @@ ManifestWith([database |-> <<"jaffle_shop">>,
                                   schema |-> <<"main">>, name |-> <<"a">>,
                                   refs |-> <<>>],
                                  [adapter_type |-> <<"duckdb">>]).nodes,
     sources  |-> <<>>,
     metadata |-> [adapter_type |-> <<"duckdb">>]]

VariedPool ==
    {TestResult(result_dict) : result_dict \in
        {[unique_id |-> TestUniqueA, status |-> <<"pass">>],
         [unique_id |-> TestNotNullA, status |-> <<"fail">>],
         [unique_id |-> TestShop, status |-> <<"error">>],
         [unique_id |-> TestSingular, status |-> <<"pass">>],
         [unique_id |-> TestNoName, status |-> <<"fail">>],
         [unique_id |-> TestNullColumn, status |-> <<"pass">>],
         [unique_id |-> TestEmptyColumn, status |-> <<"pass">>],
         [unique_id |-> TestColonDb, status |-> <<"pass">>],
         [unique_id |-> TestColonSchema, status |-> <<"fail">>],
         [unique_id |-> ModelA, status |-> <<"success">>],
         [unique_id |-> ModelChild, status |-> <<"success">>],
         [unique_id |-> TestGone, status |-> <<"pass">>]}}

VariedLists == UNION {[1..n -> VariedPool] : n \in 0..MaxTests}

InitVaried ==
    /\ workflow = "construct_events"
    /\ job_name_arg = NoneVal
    /\ skip_dbt_run = TRUE
    /\ manifest_file = Missing
    /\ run_results_file = Missing
    /\ pc = "group"
    /\ run_id = <<"uuid-1">>
    /\ job_name = <<"nightly">>
    /\ manifest = Some(ManifestVaried)
    /\ run_results \in
          {Some([metadata |-> [generated_at |-> <<"2024-01-01T12:00:00", "+00:00">>,
                               invocation_id |-> <<"inv">>,
                               dbt_version |-> <<"1.10.0">>,
                               elapsed_time |-> 0],
                 results  |-> results]) : results \in VariedLists}
    /\ dbt_exit_code = 0
    /\ start_event = None
    /\ all_events = <<>>
    /\ emit_calls = <<>>
    /\ posts = <<>>
    /\ responses = <<>>
    /\ log = <<>>
    /\ result = Running
    /\ calls = <<>>
    /\ outcomes = <<>>

SpecVaried == InitVaried /\ [][NextGroup]_vars

\* the test name and the column of a node, read from the manifest document
NodeTestName(node) ==
    IF "test_metadata" \in DOMAIN node /\ "name" \in DOMAIN node.test_metadata
    THEN node.test_metadata.name
    ELSE <<"unknown_test">>

NodeColumn(node) ==
    IF /\ "test_metadata" \in DOMAIN node
       /\ "kwargs" \in DOMAIN node.test_metadata
       /\ "column_name" \in DOMAIN node.test_metadata.kwargs
    THEN node.test_metadata.kwargs.column_name
    ELSE NoneVal

\* the node has a column: one that is neither null nor the empty string
HasColumn(node) == NodeColumn(node) \notin {NoneVal, <<>>}

\* C21: the label of the k-th assertion of a group is the test name of the
\* node of the k-th entry followed by "(column)" when the node's test
\* metadata has a column, and the test name alone otherwise; the test name is
\* "unknown_test" when the test metadata has no name.
C21_AssertionLabel ==
    (Len(outcomes) = 2 /\ outcomes[1].ok /\ outcomes[2].ok) =>
        LET grouped == outcomes[1].val
            events  == outcomes[2].val
        IN  \A g \in 1..Len(grouped) : \A k \in 1..Len(grouped[g].tests) :
                LET node == manifest.val.nodes[grouped[g].tests[k].unique_id]
                    label == events[g].inputs[1].assertions[k].assertion
                IN  label = IF HasColumn(node)
                            THEN NodeTestName(node) \o <<"(">> \o NodeColumn(node)
                                 \o <<")">>
                            ELSE NodeTestName(node)

C21_Witness ==
    /\ Len(outcomes) = 2
    /\ Len(run_results.val.results) = 2
    /\ run_results.val.results[1].unique_id = TestNoName
    /\ run_results.val.results[2].unique_id = TestSingular
    /\ Len(all_events) = 1
    /\ Len(all_events[1].inputs[1].assertions) = 2
    /\ all_events[1].inputs[1].assertions[1].assertion =
           <<"unknown_test", "(", "id", ")">>
    /\ all_events[1].inputs[1].assertions[2].assertion = <<"unknown_test">>

\* the (namespace, name) a resolving node id stands for, stated on the
\* manifest document
DatasetIdentity(test_unique_id, m) ==
    LET model == TargetModel(test_unique_id, m) IN
    [namespace |-> (IF "adapter_type" \in DOMAIN m.metadata
                    THEN m.metadata.adapter_type ELSE <<"unknown">>)
                   \o <<":", "//">> \o model.database,
     name      |-> model.schema \o <<".">>
                   \o (IF "alias" \in DOMAIN model /\ Truthy(model.alias)
                       THEN model.alias ELSE model.name)]

\* the groups of `grouped` that hold an entry of the node `unique_id`
GroupsOf(grouped, unique_id) ==
    {g \in 1..Len(grouped) :
        \E k \in 1..Len(grouped[g].tests) : grouped[g].tests[k].unique_id = unique_id}

\* C25: two resolving results of a run are in the same group exactly when
\* the identities they resolve to have the same namespace and the same name.
C25_GroupsAreIdentities ==
    (Len(outcomes) >= 1 /\ outcomes[1].ok) =>
        LET grouped == outcomes[1].val
            results == run_results.val.results
        IN  \A i, j \in 1..Len(results) :
                (Resolves(results[i]) /\ Resolves(results[j])) =>
                    ((GroupsOf(grouped, results[i].unique_id)
                        \cap GroupsOf(grouped, results[j].unique_id) # {})
                     <=> (DatasetIdentity(results[i].unique_id, manifest.val)
                            = DatasetIdentity(results[j].unique_id, manifest.val)))

\* C26: the input dataset of the quality event of a group has the namespace
\* and the name that the results of the group resolve to.
C26_IdentityRoundTrip ==
    (Len(outcomes) = 2 /\ outcomes[1].ok /\ outcomes[2].ok) =>
        LET grouped == outcomes[1].val
            events  == outcomes[2].val
        IN  \A g \in 1..Len(events) : \A k \in 1..Len(grouped[g].tests) :
                LET identity == DatasetIdentity(grouped[g].tests[k].unique_id,
                                                manifest.val)
                IN  /\ events[g].inputs[1].namespace = identity.namespace
                    /\ events[g].inputs[1].name = identity.name

\* the node id is the id of a test: "test.<project>.<name>"
IsTestNode(unique_id) == unique_id[1] = "test"

\* C28: every assertion of a quality event comes from the result of a test
\* node; the result of a model node gives no assertion.
C28_AssertionsFromTestsOnly ==
    (Len(outcomes) = 2 /\ outcomes[1].ok /\ outcomes[2].ok) =>
        LET grouped == outcomes[1].val
            events  == outcomes[2].val
        IN  \A g \in 1..Len(events) :
                \A k \in 1..Len(events[g].inputs[1].assertions) :
                    IsTestNode(grouped[g].tests[k].unique_id)

---------------------------------------------------------------------------
(* parse_run_results and parse_manifest on their own: a caller parses one     *)
(* document of its choice.  calls holds the name of the parser, outcomes what *)
(* it returned or raised; the document is run_results_file or manifest_file.  *)

MaxEntries == 2

\* entries of a results array: complete, lacking one field each, empty, and
\* values that are not objects
EntryPool ==
    {[unique_id |-> TestUniqueA, status |-> <<"pass">>, execution_time |-> 1],
     [status |-> <<"fail">>, execution_time |-> 1, failures |-> <<"5">>],
     [unique_id |-> TestNotNullA, execution_time |-> 1],
     [unique_id |-> ModelA, status |-> <<"success">>, message |-> <<"OK">>],
     <<>>,
     NotAnObject("null"),
     NotAnObject("string")}

ResultArrays == UNION {[1..n -> EntryPool] : n \in 0..MaxEntries}

\* metadata objects: complete (both spellings of UTC), lacking each required
\* field, with a timestamp that is not ISO-8601, and empty
MetadataDicts ==
    {MetadataOk,
     [MetadataOk EXCEPT !.generated_at = <<"2024-01-01T12:00:00", "+00:00">>],
     [invocation_id |-> <<"inv">>, dbt_version |-> <<"1.10.0">>],
     [generated_at |-> <<"2024-01-01T12:00:00", "Z">>, dbt_version |-> <<"1.10.0">>],
     [generated_at |-> <<"2024-01-01T12:00:00", "Z">>, invocation_id |-> <<"inv">>],
     [MetadataOk EXCEPT !.generated_at = <<"yesterday">>],
     [generated_at |-> <<"yesterday">>, dbt_version |-> <<"1.10.0">>],
     <<>>}

RunResultsDocs ==
    {[metadata |-> metadata_dict] : metadata_dict \in MetadataDicts}
    \cup {[results |-> results_data] : results_data \in ResultArrays}
    \cup {[metadata |-> metadata_dict, results |-> results_data] :
             metadata_dict \in MetadataDicts, results_data \in ResultArrays}

ManifestKeys == {"nodes", "sources", "metadata"}

\* what a manifest document holds under a top-level key: the value of a real
\* project, an empty object, null, or a string
ManifestShapes == {"project", "empty", "null", "text"}

ManifestValue(key, shape) ==
    CASE shape = "project" -> ManifestFull[key]
      [] shape = "empty" -> <<>>
      [] shape = "null" -> NoneVal
      [] OTHER -> <<"text">>

\* the document with the keys of `present`, each holding a value of its shape
ManifestDoc(present, shapes) ==
    [key \in present |-> ManifestValue(key, shapes[key])]

InitParse ==
    /\ workflow = "parse"
    /\ job_name_arg = NoneVal
    /\ skip_dbt_run = TRUE
    /\ \/ /\ pc = "parse_run_results"
          /\ run_results_file \in {Json(data) : data \in RunResultsDocs}
          /\ manifest_file = Missing
       \/ /\ pc = "parse_manifest"
          /\ \E present \in SUBSET ManifestKeys :
                \E shapes \in [ManifestKeys -> ManifestShapes] :
                    manifest_file = Json(ManifestDoc(present, shapes))
          /\ run_results_file = Missing
    /\ run_id = NoneVal
    /\ job_name = NoneVal
    /\ manifest = None
    /\ run_results = None
    /\ dbt_exit_code = 0
    /\ start_event = None
    /\ all_events = <<>>
    /\ emit_calls = <<>>
    /\ posts = <<>>
    /\ responses = <<>>
    /\ log = <<>>
    /\ result = Running
    /\ calls = <<>>
    /\ outcomes = <<>>

CallParseRunResults ==
    /\ pc = "parse_run_results"
    /\ calls' = <<"parse_run_results">>
    /\ outcomes' = <<parse_run_results(run_results_file)>>
    /\ pc' = "done"
    /\ UNCHANGED <<workflow, job_name_arg, skip_dbt_run, manifest_file,
                   run_results_file, run_id, job_name, manifest, run_results,
                   dbt_exit_code, start_event, all_events, emit_calls, posts,
                   responses, log, result>>

CallParseManifest ==
    /\ pc = "parse_manifest"
    /\ calls' = <<"parse_manifest">>
    /\ outcomes' = <<parse_manifest(manifest_file)>>
    /\ pc' = "done"
    /\ UNCHANGED <<workflow, job_name_arg, skip_dbt_run, manifest_file,
                   run_results_file, run_id, job_name, manifest, run_results,
                   dbt_exit_code, start_event, all_events, emit_calls, posts,
                   responses, log, result>>

NextParse ==
    \/ CallParseRunResults
    \/ CallParseManifest

SpecParse == InitParse /\ [][NextParse]_vars

\* the metadata of a run-results document is valid: the object is there with
\* its three required fields and generated_at is an ISO-8601 timestamp
ValidMetadata(data) ==
    /\ "metadata" \in DOMAIN data
    /\ {"generated_at", "invocation_id", "dbt_version"} \subseteq DOMAIN data.metadata
    /\ data.metadata.generated_at \in
          {<<"2024-01-01T12:00:00", "Z">>, <<"2024-01-01T12:00:00", "+00:00">>}

\* the results array of a run-results document, empty when it is absent
ResultsArray(data) == IF "results" \in DOMAIN data THEN data.results ELSE <<>>

\* C22: for a run-results document with valid metadata, parse_run_results
\* returns a summary whose results are as many as the entries of the results
\* array (none when the array is absent), entry i holding the unique_id,
\* status and execution_time of array entry i.
C22_ResultsLengthAndOrder ==
    (calls = <<"parse_run_results">> /\ ValidMetadata(run_results_file.data)) =>
        /\ outcomes[1].ok
        /\ LET array == ResultsArray(run_results_file.data)
               results == outcomes[1].val.results
           IN  /\ Len(results) = Len(array)
               /\ \A i \in 1..Len(array) :
                      /\ "unique_id" \in DOMAIN array[i]
                            => results[i].unique_id = array[i].unique_id
                      /\ "status" \in DOMAIN array[i]
                            => results[i].status = array[i].status
                      /\ "execution_time" \in DOMAIN array[i]
                            => results[i].execution_time = array[i].execution_time

\* a required field of the run-results document is absent
MetadataFieldAbsent(data) ==
    \/ "metadata" \notin DOMAIN data
    \/ \E k \in {"generated_at", "invocation_id", "dbt_version"} :
           k \notin DOMAIN data.metadata

\* C23: parse_run_results raises the missing-field error (KeyError) exactly
\* when the metadata object or one of generated_at, invocation_id, dbt_version
\* is absent, and no entry of the results array makes it fail: with the
\* metadata valid it returns, an entry lacking unique_id, status or
\* execution_time being kept with "", "" and 0.0.
C23_OnlyMetadataFatal ==
    calls = <<"parse_run_results">> =>
        LET data == run_results_file.data IN
        /\ (~outcomes[1].ok /\ outcomes[1].exc = "KeyError") <=> MetadataFieldAbsent(data)
        /\ ValidMetadata(data) =>
              /\ outcomes[1].ok
              /\ \A i \in 1..Len(ResultsArray(data)) :
                    LET entry == ResultsArray(data)[i]
                        kept  == outcomes[1].val.results[i]
                    IN  /\ "unique_id" \notin DOMAIN entry => kept.unique_id = <<>>
                        /\ "status" \notin DOMAIN entry => kept.status = <<>>
                        /\ "execution_time" \notin DOMAIN entry
                              => kept.execution_time = 0

---------------------------------------------------------------------------
(* The workflows from start to end: once started, an invocation runs its      *)
(* steps one after another until it returns or an exception leaves it.        *)

SpecLive == Spec /\ WF_vars(Next)

\* the START event was handed to emit_events on its own (run and build)
StartAttempted ==
    /\ workflow \in {"run", "build"}
    /\ \E c \in 1..Len(emit_calls) :
           /\ Len(emit_calls[c]) = 1
           /\ emit_calls[c][1].eventType = "START"

\* a batch ending in the COMPLETE or FAIL event of this run was handed to
\* emit_events
TerminalAttempted ==
    \E c \in 1..Len(emit_calls) :
        /\ emit_calls[c] # <<>>
        /\ IsTerminalWrapping(emit_calls[c][Len(emit_calls[c])])
        /\ emit_calls[c][Len(emit_calls[c])].run.runId = run_id

\* C27: in the run and build workflows, once the emission of START has been
\* attempted, the invocation goes on to attempt the emission of a batch that
\* ends in the terminal event of the same run id.
C27_StartLeadsToTerminal == StartAttempted ~> TerminalAttempted

\* `m` is what the manifest file on disk holds
IsManifestOf(m, file) ==
    /\ file.kind = "json"
    /\ ManifestKeys \subseteq DOMAIN file.data
    /\ m.nodes = file.data["nodes"]
    /\ m.sources = file.data["sources"]
    /\ m.metadata = file.data["metadata"]

\* C29 as claimed: when the events are built, the manifest in use is the
\* manifest file as it is on disk after the dbt step.
C29_ManifestIsCurrent ==
    pc = "build_events" => IsManifestOf(manifest.val, manifest_file)

\* C29: when the events are built, the manifest in use is the manifest file
\* as it is on disk after the dbt step, unless no job name was supplied, the
\* manifest was read in step 1 and dbt ran afterwards: then the manifest read
\* in step 1 is in use.
C29_ManifestCurrentUnlessReused ==
    pc = "build_events" =>
        \/ IsManifestOf(manifest.val, manifest_file)
        \/ /\ ManifestFromStepOne
           /\ ~Truthy(job_name_arg)
           /\ InLog("run_dbt_command")

C29_Witness ==
    /\ pc = "build_events"
    /\ ManifestFromStepOne
    /\ manifest.val = ManifestOther
    /\ manifest_file = Json(ManifestFull)
    /\ run_results.val.results # <<>>

\* the events handed to emit_events so far, as (call, position) pairs
Emitted ==
    UNION {{<<c, k>> : k \in 1..Len(emit_calls[c])} : c \in 1..Len(emit_calls)}

EventAt(p) == emit_calls[p[1]][p[2]]

\* C30 as claimed: after a non-zero exit of dbt no emitted event has type
\* COMPLETE, and an emitted event of type COMPLETE or FAIL is the terminal
\* wrapping event, the last event of the last batch.
C30_OnlyTerminalIsTerminalType ==
    /\ dbt_exit_code # 0 => \A p \in Emitted : EventAt(p).eventType # "COMPLETE"
    /\ \A p \in Emitted :
           EventAt(p).eventType \in {"COMPLETE", "FAIL"}
              => /\ IsWrapping(EventAt(p))
                 /\ p[1] = Len(emit_calls)
                 /\ p[2] = Len(emit_calls[p[1]])

\* C30: after a non-zero exit of dbt no emitted wrapping event has type
\* COMPLETE, and an emitted wrapping event of type COMPLETE or FAIL is the
\* last event of the last batch; the quality events have type COMPLETE
\* whatever the exit code.
C30_OnlyTerminalWrappingIsTerminalType ==
    /\ dbt_exit_code # 0 =>
          \A p \in Emitted :
              IsWrapping(EventAt(p)) => EventAt(p).eventType # "COMPLETE"
    /\ \A p \in Emitted :
           IsTerminalWrapping(EventAt(p))
              => /\ p[1] = Len(emit_calls)
                 /\ p[2] = Len(emit_calls[p[1]])
    /\ \A p \in Emitted :
           (EventAt(p).inputs # <<>> /\ "assertions" \in DOMAIN EventAt(p).inputs[1])
              => EventAt(p).eventType = "COMPLETE"

C30_Witness ==
    /\ workflow = "test"
    /\ dbt_exit_code = 1
    /\ Len(emit_calls) = 1
    /\ Len(emit_calls[1]) >= 3
    /\ emit_calls[1][2].eventType = "COMPLETE"
    /\ emit_calls[1][2].inputs # <<>>
    /\ emit_calls[1][Len(emit_calls[1])].eventType = "FAIL"

=============================================================================
